---- MODULE Spec2Model ----
(***************************************************************************)
(* Model of src/src/kagimcp/server.py: the two tool handlers               *)
(* kagi_search_fetch and kagi_summarizer, and the pure formatter           *)
(* format_search_results.                                                  *)
(*                                                                         *)
(* A text is a sequence of lines (the text split at "\n"; the empty text   *)
(* is the one empty line << <<>> >>), and a line is a sequence of string   *)
(* tokens: the literal pieces of the templates and the substituted field   *)
(* values, which are opaque and hold no newline.                           *)
(***************************************************************************)
EXTENDS Integers, Sequences, FiniteSets, TLC

VARIABLES
    pc,               \* position of the handler: idle, collect, exit, summarizing, done
    tool,             \* the tool being served: none, search, summarizer
    queries,          \* kagi_search_fetch: the queries argument
    fut,              \* the futures executor.map submitted, in submission order
    results,          \* the list(...) being built from the result iterator
    elapsed,          \* time units since executor.map was called
    raised,           \* the exception raised inside the try block, or NoExc
    propagated,       \* TRUE when an exception left the handler
    result,           \* the handler's return value (a text), <<>> before it returns
    url,              \* kagi_summarizer arguments
    summary_type,
    target_language,
    environ,          \* os.environ at the time of the call
    sumCalls,         \* the kagi_client.summarize calls issued, in order
    sumResp,          \* what kagi_client.summarize returned
    done_order,       \* the futures in the order their calls completed
    fpc,              \* the formatter applied alone: off, input, output
    fqueries,         \* format_search_results: the queries argument
    fresponses,       \* format_search_results: the responses argument
    fout              \* format_search_results: the returned text

vars == <<pc, tool, queries, fut, results, elapsed, raised, propagated, result,
          url, summary_type, target_language, environ, sumCalls, sumResp,
          done_order, fpc, fqueries, fresponses, fout>>

handlerVars == <<pc, tool, queries, fut, results, elapsed, raised, propagated,
                 result, url, summary_type, target_language, environ, sumCalls,
                 sumResp, done_order>>

fmtVars == <<fpc, fqueries, fresponses, fout>>

(***************************************************************************)
(* Bounds of the model.                                                    *)
(***************************************************************************)
MaxQueries == 2        \* longest queries list
MaxEntries == 3        \* most entries over the data lists of one request

(***************************************************************************)
(* Program constants.                                                      *)
(***************************************************************************)
TIMEOUT == 10

QuerySet == {"rust ownership", "go channels"}

valid_engines == {"cecil", "agnes", "daphne", "muriel"}

ENGINE_VAR == "KAGI_SUMMARIZER_ENGINE"

(***************************************************************************)
(* Sequences over a set, up to a length.                                   *)
(***************************************************************************)
SeqsUpTo(S, n) == UNION {[1..k -> S] : k \in 0..n}

Min(a, b) == IF a < b THEN a ELSE b

(***************************************************************************)
(* Exceptions: the class name, str(e) and repr(e) as token sequences.      *)
(***************************************************************************)
NoExc == [type |-> "", str |-> <<>>, repr |-> <<>>]

ValueError(msg) ==
    [type |-> "ValueError", str |-> msg, repr |-> <<"ValueError(">> \o msg \o <<")">>]

KeyError(key) ==
    [type |-> "KeyError", str |-> <<"'" \o key \o "'">>,
     repr |-> <<"KeyError('" \o key \o "')">>]

\* concurrent.futures.TimeoutError carries no message: str(e) is empty.
TimeoutError ==
    [type |-> "TimeoutError", str |-> <<>>, repr |-> <<"TimeoutError()">>]

\* What the remote client raises: one error with a message, one without.
RemoteErrors ==
    { [type |-> "HTTPError", str |-> <<"401 Client Error">>,
       repr |-> <<"HTTPError('401 Client Error')">>],
      [type |-> "ConnectionError", str |-> <<>>, repr |-> <<"ConnectionError()">>] }

(***************************************************************************)
(* Remote search responses.  An entry is a dict; "published" may be        *)
(* missing.  The content of an entry depends on the query it answers.      *)
(***************************************************************************)
EntryKinds == {"dated", "undated", "related"}

Entry(q, kind) ==
    CASE kind = "dated" ->
            [t |-> 0, title |-> "title/dated/" \o q, url |-> "url/dated/" \o q,
             snippet |-> "snippet/dated/" \o q, published |-> "published/" \o q]
      [] kind = "undated" ->
            [t |-> 0, title |-> "title/undated/" \o q, url |-> "url/undated/" \o q,
             snippet |-> "snippet/undated/" \o q]
      [] OTHER ->
            [t |-> 1, list |-> "related/" \o q]

EntriesOf(q) == {Entry(q, k) : k \in EntryKinds}

RECURSIVE ShapeLists(_, _)
\* The data lists of n responses, as sequences of entry kinds, holding at
\* most budget entries together.
ShapeLists(n, budget) ==
    IF n = 0 THEN {<<>>}
    ELSE UNION {{<<sh>> \o rest : rest \in ShapeLists(n - 1, budget - Len(sh))} :
                   sh \in SeqsUpTo(EntryKinds, budget)}

\* The well-formed response to query q with the given shape.
Response(q, shape) == [data |-> [k \in 1..Len(shape) |-> Entry(q, shape[k])]]

\* A response without the "data" key.
MalformedResponse == [meta |-> "no data"]

NoResp == [none |-> "none"]

(***************************************************************************)
(* format_search_results                                                   *)
(***************************************************************************)
Get(d, key, default) == IF key \in DOMAIN d THEN d[key] ELSE default

IsSearchResult(entry) == entry.t = 0

\* An entry that is a search result and carries a published date.
HasPublished(entry) == entry.t = 0 /\ "published" \in DOMAIN entry

\* Variant: the filter also drops the results without a published date.
Surfaced_DatedOnly(response) == SelectSeq(response.data, HasPublished)

\* results = [result for result in response["data"] if result["t"] == 0]
Surfaced(response) == SelectSeq(response.data, IsSearchResult)

\* Variant: a missing published date is rendered as the empty text.
Published_Blank(entry) == Get(entry, "published", "")

\* published=result.get("published", "Not Available")
Published(entry) == Get(entry, "published", "Not Available")

\* result_template.format(...)
ResultBlock(result_number, entry) ==
    << <<ToString(result_number), ": ", entry.title>>,
       <<entry.url>>,
       <<"Published Date: ", Published(entry)>>,
       <<entry.snippet>> >>

RECURSIVE JoinBlank(_)
\* "\n\n".join(texts)
JoinBlank(texts) ==
    IF texts = <<>> THEN << <<>> >>
    ELSE IF Len(texts) = 1 THEN texts[1]
    ELSE texts[1] \o << <<>> >> \o JoinBlank(Tail(texts))

HeaderPrefix == "Results for search query \""

\* query_response_template.format(...)
QueryResponse(query, formatted_results_str) ==
    << <<"-----">>, <<HeaderPrefix, query, "\":">>, <<"-----">> >>
        \o formatted_results_str

\* Variant: the numbering restarts at every query.
NextStartIndex_Reset(start_index, found) == 1

\* start_index += len(results)
NextStartIndex(start_index, found) == start_index + Len(found)

RECURSIVE FormatLoop(_, _, _, _)
\* the loop over zip(queries, responses)
FormatLoop(qs, responses, start_index, per_query_response_strs) ==
    IF qs = <<>> \/ responses = <<>> THEN per_query_response_strs
    ELSE LET found == Surfaced(Head(responses))
             formatted_results_list ==
                 [k \in 1..Len(found) |-> ResultBlock(start_index + k - 1, found[k])]
             query_response_str ==
                 QueryResponse(Head(qs), JoinBlank(formatted_results_list))
         IN  FormatLoop(Tail(qs), Tail(responses),
                        NextStartIndex(start_index, found),
                        Append(per_query_response_strs, query_response_str))

format_search_results(qs, responses) ==
    JoinBlank(FormatLoop(qs, responses, 1, <<>>))

\* response["data"] raises KeyError for the first response without the key.
FormatRaises(qs, responses) ==
    \E i \in 1..Min(Len(qs), Len(responses)) : "data" \notin DOMAIN responses[i]

(***************************************************************************)
(* The formatter applied to drawn inputs.                                  *)
(***************************************************************************)
IdleHandler ==
    /\ pc = "idle"
    /\ tool = "none"
    /\ queries = <<>>
    /\ fut = <<>>
    /\ results = <<>>
    /\ elapsed = 0
    /\ raised = NoExc
    /\ propagated = FALSE
    /\ result = <<>>
    /\ url = ""
    /\ summary_type = "summary"
    /\ target_language = "None"
    /\ environ = <<>>
    /\ sumCalls = <<>>
    /\ sumResp = NoResp
    /\ done_order = <<>>

InitFmt ==
    /\ IdleHandler
    /\ fpc = "input"
    /\ fqueries \in SeqsUpTo(QuerySet, MaxQueries)
    /\ \E shapes \in ShapeLists(Len(fqueries), MaxEntries) :
          fresponses = [i \in 1..Len(fqueries) |-> Response(fqueries[i], shapes[i])]
    /\ fout = <<>>

ApplyFormat ==
    /\ fpc = "input"
    /\ fout' = format_search_results(fqueries, fresponses)
    /\ fpc' = "output"
    /\ UNCHANGED <<fqueries, fresponses>>
    /\ UNCHANGED handlerVars

NextFmt == ApplyFormat

SpecFmt == InitFmt /\ [][NextFmt]_vars

(***************************************************************************)
(* The error boundary of both handlers.                                    *)
(***************************************************************************)
\* f"Error: {str(e) or repr(e)}"
ErrorText(e) == << <<"Error: ">> \o (IF e.str # <<>> THEN e.str ELSE e.repr) >>

\* Variant: an except clause that catches ValueError only.
Handle_ValueErrorOnly(e) ==
    IF e.type = "ValueError"
    THEN [text |-> ErrorText(e), propagated |-> FALSE]
    ELSE [text |-> <<>>, propagated |-> TRUE]

\* except Exception as e: return ...   Every exception modelled here is an
\* Exception subclass, so the clause catches it.
Handle(e) == [text |-> ErrorText(e), propagated |-> FALSE]

(***************************************************************************)
(* kagi_search_fetch                                                       *)
(***************************************************************************)
\* The data lists the remote search answers with in the handler model.
SearchShapes == SeqsUpTo(EntryKinds, 1)

\* The elements of a list without repetition, in order of first occurrence.
Distinct(qs) == SelectSeq([i \in 1..Len(qs) |->
                              IF \E j \in 1..(i - 1) : qs[j] = qs[i] THEN "" ELSE qs[i]],
                          LAMBDA q : q # "")

\* Variant: repeated queries are submitted once.
SubmittedArgs_Dedup(qs) == Distinct(qs)

\* executor.map(kagi_client.search, queries, ...) submits one call per element.
SubmittedArgs(qs) == qs

\* executor.submit: a future for kagi_client.search(arg), not yet started.
NewFuture(arg) == [state |-> "pending", arg |-> arg, resp |-> NoResp, exc |-> NoExc]

\* Variant: the futures are yielded last-submitted first.
NextFuture_Reversed(collected, fs) == Len(fs) - Len(collected)

\* The result iterator yields the futures in submission order.
NextFuture(collected, fs) == Len(collected) + 1

\* Variant: a failed call counts as an empty response.
ResultOf_Swallow(f) ==
    [raises |-> FALSE, value |-> IF f.exc # NoExc THEN [data |-> <<>>] ELSE f.resp]

\* Future.result() of a finished future: its value, or its exception raised.
ResultOf(f) == [raises |-> f.exc # NoExc, value |-> f.resp]

\* The iterator's finally clause cancels the futures not yet yielded; only a
\* future that has not started can be cancelled.
CancelFrom(fs, from) ==
    [j \in 1..Len(fs) |->
        IF j >= from /\ fs[j].state = "pending"
        THEN [fs[j] EXCEPT !.state = "cancelled"]
        ELSE fs[j]]

\* Leaving the with block calls shutdown(wait=True), which joins the worker
\* threads: it blocks while a call is running.
ShutdownWaits(fs) == \E j \in 1..Len(fs) : fs[j].state = "running"

SearchCall(qs) ==
    /\ pc = "idle"
    /\ tool' = "search"
    /\ queries' = qs
    /\ IF qs = <<>>
       THEN LET e == ValueError(<<"Search called with no queries.">>)
            IN  /\ raised' = e
                /\ result' = Handle(e).text
                /\ propagated' = Handle(e).propagated
                /\ pc' = "done"
                /\ UNCHANGED fut
       ELSE /\ fut' = [i \in 1..Len(SubmittedArgs(qs)) |-> NewFuture(SubmittedArgs(qs)[i])]
            /\ pc' = "collect"
            /\ UNCHANGED <<raised, result, propagated>>
    /\ elapsed' = 0
    /\ UNCHANGED <<results, url, summary_type, target_language, environ, sumCalls,
                   sumResp,
                   done_order>>
    /\ UNCHANGED fmtVars

\* A worker thread takes a submitted call and issues kagi_client.search(arg).
WorkerStart(i) ==
    /\ i \in 1..Len(fut)
    /\ fut[i].state = "pending"
    /\ fut' = [fut EXCEPT ![i].state = "running"]
    /\ UNCHANGED <<pc, tool, queries, results, elapsed, raised, propagated, result,
                   url, summary_type, target_language, environ, sumCalls, sumResp,
                   done_order>>
    /\ UNCHANGED fmtVars

\* kagi_client.search(arg) returns a response.
WorkerReturn(i) ==
    /\ i \in 1..Len(fut)
    /\ fut[i].state = "running"
    /\ \E resp \in {Response(fut[i].arg, sh) : sh \in SearchShapes} \cup {MalformedResponse} :
          fut' = [fut EXCEPT ![i].state = "finished", ![i].resp = resp]
    /\ done_order' = Append(done_order, i)
    /\ UNCHANGED <<pc, tool, queries, results, elapsed, raised, propagated, result,
                   url, summary_type, target_language, environ, sumCalls, sumResp>>
    /\ UNCHANGED fmtVars

\* kagi_client.search(arg) raises.
WorkerRaise(i) ==
    /\ i \in 1..Len(fut)
    /\ fut[i].state = "running"
    /\ \E e \in RemoteErrors :
          fut' = [fut EXCEPT ![i].state = "finished", ![i].exc = e]
    /\ done_order' = Append(done_order, i)
    /\ UNCHANGED <<pc, tool, queries, results, elapsed, raised, propagated, result,
                   url, summary_type, target_language, environ, sumCalls, sumResp>>
    /\ UNCHANGED fmtVars

\* One time unit passes while the handler waits in the result iterator.
Tick ==
    /\ pc = "collect"
    /\ elapsed < TIMEOUT
    /\ elapsed' = elapsed + 1
    /\ UNCHANGED <<pc, tool, queries, fut, results, raised, propagated, result,
                   url, summary_type, target_language, environ, sumCalls, sumResp,
                   done_order>>
    /\ UNCHANGED fmtVars

\* The result iterator yields the next future's value to list(...).
CollectResult ==
    /\ pc = "collect"
    /\ Len(results) < Len(fut)
    /\ LET f == fut[NextFuture(results, fut)]
       IN  /\ f.state = "finished"
           /\ ~ResultOf(f).raises
           /\ results' = Append(results, ResultOf(f).value)
    /\ UNCHANGED <<pc, tool, queries, fut, elapsed, raised, propagated, result,
                   url, summary_type, target_language, environ, sumCalls, sumResp,
                   done_order>>
    /\ UNCHANGED fmtVars

\* The next future finished with an exception: result() raises it.
CollectRaise ==
    /\ pc = "collect"
    /\ Len(results) < Len(fut)
    /\ LET i == NextFuture(results, fut)
       IN  /\ fut[i].state = "finished"
           /\ ResultOf(fut[i]).raises
           /\ raised' = fut[i].exc
           /\ fut' = CancelFrom(fut, i)
    /\ pc' = "exit"
    /\ UNCHANGED <<tool, queries, results, elapsed, propagated, result,
                   url, summary_type, target_language, environ, sumCalls, sumResp,
                   done_order>>
    /\ UNCHANGED fmtVars

\* The next future is not finished when the deadline of executor.map passes.
CollectTimeout ==
    /\ pc = "collect"
    /\ Len(results) < Len(fut)
    /\ LET i == NextFuture(results, fut)
       IN  /\ fut[i].state # "finished"
           /\ elapsed >= TIMEOUT
           /\ raised' = TimeoutError
           /\ fut' = CancelFrom(fut, i)
    /\ pc' = "exit"
    /\ UNCHANGED <<tool, queries, results, elapsed, propagated, result,
                   url, summary_type, target_language, environ, sumCalls, sumResp,
                   done_order>>
    /\ UNCHANGED fmtVars

\* The exception leaves the with block once shutdown(wait=True) is through,
\* and the except clause turns it into the returned text.
ShutdownAndReport ==
    /\ pc = "exit"
    /\ ~ShutdownWaits(fut)
    /\ result' = Handle(raised).text
    /\ propagated' = Handle(raised).propagated
    /\ pc' = "done"
    /\ UNCHANGED <<tool, queries, fut, results, elapsed, raised,
                   url, summary_type, target_language, environ, sumCalls, sumResp,
                   done_order>>
    /\ UNCHANGED fmtVars

\* All results are in: the with block is left and the report is formatted.
FormatAndReturn ==
    /\ pc = "collect"
    /\ Len(results) = Len(fut)
    /\ ~ShutdownWaits(fut)
    /\ IF FormatRaises(queries, results)
       THEN LET e == KeyError("data")
            IN  /\ raised' = e
                /\ result' = Handle(e).text
                /\ propagated' = Handle(e).propagated
       ELSE /\ result' = format_search_results(queries, results)
            /\ UNCHANGED <<raised, propagated>>
    /\ pc' = "done"
    /\ UNCHANGED <<tool, queries, fut, results, elapsed,
                   url, summary_type, target_language, environ, sumCalls, sumResp,
                   done_order>>
    /\ UNCHANGED fmtVars

(***************************************************************************)
(* kagi_summarizer                                                         *)
(***************************************************************************)
Urls == {"", "https://example.com/doc"}

SummaryTypes == {"summary", "takeaway"}

\* target_language: None, or a language code.
Languages == {"None", "EN"}

\* os.environ: the engine setting absent, or set to some name.
Environs ==
    {<<>>} \cup {[n \in {ENGINE_VAR} |-> v] : v \in valid_engines \cup {"bogus", ""}}

\* The texts the remote summarizer puts in data.output.
SummaryOutputs ==
    { << <<"The document says hello.">> >>,
      << <<"Error: ", "first point">>, <<"second point">> >> }

\* What kagi_client.summarize returns: well-formed, or lacking a key.
SummarizeResponses ==
    {[data |-> [output |-> o]] : o \in SummaryOutputs}
        \cup {[data |-> [tokens |-> "0"]], [meta |-> "no data"]}

\* The orders in which the text of a set can list its members.
Orders(S) == {o \in [1..Cardinality(S) -> S] : \A x \in S : \E k \in DOMAIN o : o[k] = x}

\* os.environ.get("KAGI_SUMMARIZER_ENGINE", "cecil")
ConfiguredEngine(env) == Get(env, ENGINE_VAR, "cecil")

\* Variant: the message leaves out the configured engine.
EngineError_NoName(engine, order) ==
    ValueError(<<"Summarizer configured incorrectly. Must be one of the following: ">>
               \o order)

\* the ValueError of an engine outside valid_engines
EngineError(engine, order) ==
    ValueError(<<"Summarizer configured incorrectly, invalid summarization engine set: ",
                 engine, ". Must be one of the following: ">> \o order)

\* Variant: summary_type is not passed on.
SummarizeArgs_DefaultType(u, engine, st, tl) ==
    [url |-> u, engine |-> engine, summary_type |-> "summary", target_language |-> tl]

\* kagi_client.summarize(url, engine=..., summary_type=..., target_language=...)
SummarizeArgs(u, engine, st, tl) ==
    [url |-> u, engine |-> engine, summary_type |-> st, target_language |-> tl]

\* response["data"]["output"]: the key whose lookup fails, or "" for none.
MissingKey(resp) ==
    IF "data" \notin DOMAIN resp THEN "data"
    ELSE IF "output" \notin DOMAIN resp.data THEN "output"
    ELSE ""

SummarizerCall(u, st, tl, env) ==
    /\ pc = "idle"
    /\ tool' = "summarizer"
    /\ url' = u
    /\ summary_type' = st
    /\ target_language' = tl
    /\ environ' = env
    /\ IF u = ""
       THEN LET e == ValueError(<<"Summarizer called with no URL.">>)
            IN  /\ raised' = e
                /\ result' = Handle(e).text
                /\ propagated' = Handle(e).propagated
                /\ pc' = "done"
                /\ UNCHANGED sumCalls
       ELSE IF ConfiguredEngine(env) \notin valid_engines
       THEN \E order \in Orders(valid_engines) :
                LET e == EngineError(ConfiguredEngine(env), order)
                IN  /\ raised' = e
                    /\ result' = Handle(e).text
                    /\ propagated' = Handle(e).propagated
                    /\ pc' = "done"
                    /\ UNCHANGED sumCalls
       ELSE /\ sumCalls' = Append(sumCalls, SummarizeArgs(u, ConfiguredEngine(env), st, tl))
            /\ pc' = "summarizing"
            /\ UNCHANGED <<raised, result, propagated>>
    /\ UNCHANGED <<queries, fut, results, elapsed, sumResp,
                   done_order>>
    /\ UNCHANGED fmtVars

\* kagi_client.summarize returns; data.output is extracted and returned.
SummarizeReturn(resp) ==
    /\ pc = "summarizing"
    /\ sumResp' = resp
    /\ IF MissingKey(resp) # ""
       THEN LET e == KeyError(MissingKey(resp))
            IN  /\ raised' = e
                /\ result' = Handle(e).text
                /\ propagated' = Handle(e).propagated
       ELSE /\ result' = resp.data.output
            /\ UNCHANGED <<raised, propagated>>
    /\ pc' = "done"
    /\ UNCHANGED <<tool, queries, fut, results, elapsed, url, summary_type,
                   target_language, environ, sumCalls,
                   done_order>>
    /\ UNCHANGED fmtVars

\* kagi_client.summarize raises.
SummarizeRaise(e) ==
    /\ pc = "summarizing"
    /\ raised' = e
    /\ result' = Handle(e).text
    /\ propagated' = Handle(e).propagated
    /\ pc' = "done"
    /\ UNCHANGED <<tool, queries, fut, results, elapsed, url, summary_type,
                   target_language, environ, sumCalls, sumResp,
                   done_order>>
    /\ UNCHANGED fmtVars

(***************************************************************************)
(* The server: one request at a time, each starting from a clean frame.    *)
(***************************************************************************)
NextRequest ==
    /\ pc = "done"
    /\ pc' = "idle"
    /\ tool' = "none"
    /\ queries' = <<>>
    /\ fut' = <<>>
    /\ results' = <<>>
    /\ elapsed' = 0
    /\ raised' = NoExc
    /\ propagated' = FALSE
    /\ result' = <<>>
    /\ url' = ""
    /\ summary_type' = "summary"
    /\ target_language' = "None"
    /\ environ' = <<>>
    /\ sumCalls' = <<>>
    /\ sumResp' = NoResp
    /\ done_order' = <<>>
    /\ UNCHANGED fmtVars

Init ==
    /\ IdleHandler
    /\ fpc = "off"
    /\ fqueries = <<>>
    /\ fresponses = <<>>
    /\ fout = <<>>

Next ==
    \/ \E qs \in SeqsUpTo(QuerySet, MaxQueries) : SearchCall(qs)
    \/ \E i \in 1..MaxQueries : WorkerStart(i)
    \/ \E i \in 1..MaxQueries : WorkerReturn(i)
    \/ \E i \in 1..MaxQueries : WorkerRaise(i)
    \/ Tick
    \/ CollectResult
    \/ CollectRaise
    \/ CollectTimeout
    \/ ShutdownAndReport
    \/ FormatAndReturn
    \/ \E u \in Urls, st \in SummaryTypes, tl \in Languages, env \in Environs :
          SummarizerCall(u, st, tl, env)
    \/ \E resp \in SummarizeResponses : SummarizeReturn(resp)
    \/ \E e \in RemoteErrors : SummarizeRaise(e)
    \/ NextRequest

Spec == Init /\ [][Next]_vars

(***************************************************************************)
(* Reading a report back: its sections and their numbered blocks.          *)
(***************************************************************************)
IsHeader(line) == Len(line) = 3 /\ line[1] = HeaderPrefix

IsTitle(line) == Len(line) = 3 /\ line[1] # HeaderPrefix /\ line[2] = ": "

BlockAt(text, i) ==
    [number |-> text[i][1], title |-> text[i][3],
     url |-> IF Len(text[i + 1]) = 1 THEN text[i + 1][1] ELSE "?",
     published |-> IF Len(text[i + 2]) = 2 THEN text[i + 2][2] ELSE "?",
     snippet |-> IF Len(text[i + 3]) = 1 THEN text[i + 3][1] ELSE "?"]

RECURSIVE ParseFrom(_, _, _)
ParseFrom(text, i, acc) ==
    IF i > Len(text) THEN acc
    ELSE IF IsHeader(text[i])
    THEN ParseFrom(text, i + 1, Append(acc, [query |-> text[i][2], blocks |-> <<>>]))
    ELSE IF IsTitle(text[i]) /\ acc # <<>> /\ i + 3 <= Len(text)
    THEN ParseFrom(text, i + 4,
                   [acc EXCEPT ![Len(acc)].blocks = Append(@, BlockAt(text, i))])
    ELSE ParseFrom(text, i + 1, acc)

\* The sections of a report, each with its query and its blocks, in order.
Sections(text) == ParseFrom(text, 1, <<>>)

\* The display numbers of a report, in output order.
TitleNumbers(text) ==
    LET titles == SelectSeq(text, IsTitle)
    IN  [k \in 1..Len(titles) |-> titles[k][1]]

BeginsWithError(text) ==
    /\ Len(text) >= 1
    /\ Len(text[1]) >= 1
    /\ text[1][1] = "Error: "

\* The positions of the t == 0 entries of a data list.
OrganicAt(data) == {k \in 1..Len(data) : data[k].t = 0}

RECURSIVE OrganicCount(_)
\* The number of t == 0 entries in a list of responses.
OrganicCount(responses) ==
    IF responses = <<>> THEN 0
    ELSE Cardinality(OrganicAt(Head(responses).data)) + OrganicCount(Tail(responses))

\* The k-th smallest member of a set of numbers.
RECURSIVE Nth(_, _)
Nth(S, k) ==
    LET m == CHOOSE x \in S : \A y \in S : x <= y
    IN  IF k = 1 THEN m ELSE Nth(S \ {m}, k - 1)

\* The t == 0 entries of a data list, in its order.
Organic(data) == [k \in 1..Cardinality(OrganicAt(data)) |-> data[Nth(OrganicAt(data), k)]]

(***************************************************************************)
(* C1: for a non-empty queries list the display numbers of the report are  *)
(* exactly 1, 2, ..., K in output order, K the number of t == 0 entries    *)
(* over all responses: the numbering starts at 1, goes up by one per       *)
(* surfaced result and does not restart at a query boundary.               *)
(***************************************************************************)
C1_ContinuousNumbering ==
    (fpc = "output" /\ fqueries # <<>>) =>
        TitleNumbers(fout) = [k \in 1..OrganicCount(fresponses) |-> ToString(k)]

\* A report of two queries, each with a surfaced result, numbered across the boundary.
C1_Witness ==
    /\ fpc = "output"
    /\ Len(fqueries) = 2
    /\ OrganicAt(fresponses[1].data) # {}
    /\ OrganicAt(fresponses[2].data) # {}
    /\ Len(Sections(fout)) = 2
    /\ Sections(fout)[2].blocks # <<>>
    /\ Sections(fout)[2].blocks[1].number # "1"

(***************************************************************************)
(* C7: each section of the report shows exactly the t == 0 entries of its  *)
(* query's response, in their order, and none of the t == 1 entries; a     *)
(* query with no t == 0 entry still gets its header, with no block, and    *)
(* the numbering of the following sections goes on from where it stood.    *)
(***************************************************************************)
C7_OnlySearchResults ==
    fpc = "output" =>
        LET secs == Sections(fout)
        IN  /\ Len(secs) = Len(fqueries)
            /\ \A i \in 1..Len(fqueries) :
                  LET want == Organic(fresponses[i].data)
                      before == OrganicCount(SubSeq(fresponses, 1, i - 1))
                  IN  /\ secs[i].query = fqueries[i]
                      /\ Len(secs[i].blocks) = Len(want)
                      /\ \A k \in 1..Len(want) :
                            /\ secs[i].blocks[k].title = want[k].title
                            /\ secs[i].blocks[k].url = want[k].url
                            /\ secs[i].blocks[k].snippet = want[k].snippet
                            /\ secs[i].blocks[k].number = ToString(before + k)

\* A first query answered with related searches only, then one with a result.
C7_Witness ==
    /\ fpc = "output"
    /\ Len(fqueries) = 2
    /\ fresponses[1].data # <<>>
    /\ OrganicAt(fresponses[1].data) = {}
    /\ OrganicAt(fresponses[2].data) # {}
    /\ Len(Sections(fout)) = 2
    /\ Sections(fout)[1].query = fqueries[1]
    /\ Sections(fout)[1].blocks = <<>>
    /\ Sections(fout)[2].blocks[1].number = "1"

(***************************************************************************)
(* C8: the published-date position of every block shows the entry's        *)
(* published date when the entry has one and "Not Available" when not.     *)
(***************************************************************************)
C8_PublishedDate ==
    fpc = "output" =>
        \A i \in 1..Min(Len(fqueries), Len(Sections(fout))) :
            LET want == Organic(fresponses[i].data)
                blocks == Sections(fout)[i].blocks
            IN  \A k \in 1..Min(Len(want), Len(blocks)) :
                    blocks[k].published =
                        (IF "published" \in DOMAIN want[k]
                         THEN want[k].published ELSE "Not Available")

\* A report with a dated and an undated result.
C8_Witness ==
    /\ fpc = "output"
    /\ \E i \in 1..Len(Sections(fout)) :
          LET blocks == Sections(fout)[i].blocks
          IN  /\ \E k \in 1..Len(blocks) : blocks[k].published = "Not Available"
              /\ \E k \in 1..Len(blocks) : blocks[k].published = "published/" \o fqueries[i]

(***************************************************************************)
(* What a claim reads off a request.                                       *)
(***************************************************************************)
\* The engine the configuration names, read off os.environ.
EngineSetting == IF ENGINE_VAR \in DOMAIN environ THEN environ[ENGINE_VAR] ELSE "cecil"

EngineAllowed == EngineSetting \in {"cecil", "agnes", "daphne", "muriel"}

\* The tokens of a line, as a set.
Tokens(line) == {line[k] : k \in 1..Len(line)}

\* A remote search call was issued for future i.
Issued(i) == fut[i].state \in {"running", "finished"}

\* Some remote search call raised, or the deadline passed in the handler.
SomeCallFailed ==
    \/ \E i \in 1..Len(fut) : fut[i].exc # NoExc
    \/ raised = TimeoutError

\* Something failed inside the handler that served the request.
SomethingFailed ==
    \/ raised # NoExc
    \/ tool = "search" /\ queries = <<>>
    \/ tool = "search" /\ SomeCallFailed
    \/ tool = "search" /\ \E i \in 1..Len(fut) : fut[i].resp = MalformedResponse
    \/ tool = "search" /\ Len(results) < Len(queries)
    \/ tool = "summarizer" /\ url = ""
    \/ tool = "summarizer" /\ ~EngineAllowed
    \/ tool = "summarizer" /\ sumResp # NoResp /\ MissingKey(sumResp) # ""
    \/ tool = "summarizer" /\ url # "" /\ EngineAllowed /\ sumResp = NoResp

(***************************************************************************)
(* C2: a handler that returns returns a text; when anything failed inside  *)
(* it (empty queries, empty URL, engine outside the allow-list, a remote   *)
(* error, a timeout, a response lacking a key) the text begins with        *)
(* "Error: ", and no exception leaves the handler.                         *)
(***************************************************************************)
C2_ErrorsBecomeText ==
    /\ ~propagated
    /\ pc = "done" =>
          /\ result # <<>>
          /\ SomethingFailed => BeginsWithError(result)
          /\ (tool = "search" /\ queries = <<>>) => BeginsWithError(result)

\* A search whose deadline passed has returned its error text.
C2_Witness ==
    /\ pc = "done"
    /\ tool = "search"
    /\ raised = TimeoutError
    /\ result = << <<"Error: ", "TimeoutError()">> >>

(***************************************************************************)
(* C3: when the remote call of any query raised or timed out, the search   *)
(* handler returns one error line and no section of any query; a report    *)
(* with sections is returned only when every remote call succeeded.        *)
(***************************************************************************)
C3_NoPartialReport ==
    (pc = "done" /\ tool = "search") =>
        /\ SomeCallFailed =>
              /\ Len(result) = 1
              /\ BeginsWithError(result)
              /\ Sections(result) = <<>>
        /\ Sections(result) # <<>> =>
              \A i \in 1..Len(fut) :
                  /\ fut[i].state = "finished"
                  /\ fut[i].exc = NoExc
                  /\ fut[i].resp # NoResp

\* The second call raised after the first one had returned results.
C3_Witness ==
    /\ pc = "done"
    /\ tool = "search"
    /\ Len(fut) = 2
    /\ fut[1].state = "finished"
    /\ fut[1].resp = Response(queries[1], <<"dated">>)
    /\ fut[2].exc # NoExc
    /\ BeginsWithError(result)

(***************************************************************************)
(* C4: the responses handed to the formatter are in query order, the i-th  *)
(* one answering the i-th query, whatever the order the calls completed    *)
(* in; the sections of the report are in query order, each under the       *)
(* header of its own query and holding that query's results.               *)
(***************************************************************************)
C4_QueryOrder ==
    (pc = "done" /\ tool = "search" /\ raised = NoExc) =>
        LET secs == Sections(result)
        IN  /\ Len(results) = Len(queries)
            /\ Len(secs) = Len(queries)
            /\ \A i \in 1..Len(queries) :
                  /\ results[i] \in {Response(queries[i], sh) : sh \in SearchShapes}
                  /\ secs[i].query = queries[i]
                  /\ \A k \in 1..Len(secs[i].blocks) :
                        secs[i].blocks[k].url \in
                            {"url/dated/" \o queries[i], "url/undated/" \o queries[i]}

\* Two different queries, the second call completing first, both with results.
C4_Witness ==
    /\ pc = "done"
    /\ tool = "search"
    /\ raised = NoExc
    /\ Len(queries) = 2
    /\ queries[1] # queries[2]
    /\ done_order = <<2, 1>>
    /\ Len(Sections(result)) = 2
    /\ Sections(result)[1].blocks # <<>>
    /\ Sections(result)[2].blocks # <<>>

(***************************************************************************)
(* C5: when the deadline passes with a remote call still in flight, the    *)
(* search handler returns its error text at that point, without waiting    *)
(* for the call to finish.                                                 *)
(***************************************************************************)
C5_ReturnsAtDeadline ==
    (pc = "exit" /\ raised = TimeoutError) => ENABLED ShutdownAndReport

(***************************************************************************)
(* C6: with a non-empty URL and a configured engine outside the allow-list *)
(* the summarizer returns one line that begins with "Error: " and names    *)
(* the configured engine and every allowed engine; with the setting absent *)
(* the engine is cecil and the call is issued.                             *)
(***************************************************************************)
C6_InvalidEngine ==
    (tool = "summarizer" /\ url # "") =>
        /\ ~EngineAllowed =>
              /\ pc = "done"
              /\ Len(result) = 1
              /\ BeginsWithError(result)
              /\ EngineSetting \in Tokens(result[1])
              /\ {"cecil", "agnes", "daphne", "muriel"} \subseteq Tokens(result[1])
        /\ environ = <<>> =>
              /\ Len(sumCalls) = 1
              /\ sumCalls[1].engine = "cecil"
              /\ raised.type # "ValueError"

\* The summarizer called with the engine set to a name outside the list.
C6_Witness ==
    /\ pc = "done"
    /\ tool = "summarizer"
    /\ url # ""
    /\ ENGINE_VAR \in DOMAIN environ
    /\ environ[ENGINE_VAR] = "bogus"
    /\ "bogus" \in Tokens(result[1])

(***************************************************************************)
(* C9: with a non-empty URL and an allowed engine the summarizer issues    *)
(* exactly one summarize call, with the given url, the configured engine,  *)
(* the given summary_type and target_language; when the call returns a     *)
(* response with data.output, that text is returned unchanged.  No second  *)
(* call is ever issued.                                                    *)
(***************************************************************************)
C9_OneSummarizeCall ==
    /\ Len(sumCalls) <= 1
    /\ (tool = "summarizer" /\ url # "" /\ EngineAllowed) =>
          /\ sumCalls = << [url |-> url, engine |-> EngineSetting,
                            summary_type |-> summary_type,
                            target_language |-> target_language] >>
          /\ (pc = "done" /\ sumResp # NoResp /\ MissingKey(sumResp) = "") =>
                result = sumResp.data.output

\* A takeaway in English from a non-default engine, returned as received.
C9_Witness ==
    /\ pc = "done"
    /\ tool = "summarizer"
    /\ summary_type = "takeaway"
    /\ target_language = "EN"
    /\ EngineSetting = "muriel"
    /\ sumResp = [data |-> [output |-> << <<"Error: ", "first point">>, <<"second point">> >>]]
    /\ result = sumResp.data.output
    /\ Len(sumCalls) = 1

(***************************************************************************)
(* C10: a request that fails validation (empty queries, empty URL, engine  *)
(* outside the allow-list) returns its error text with no remote call      *)
(* submitted or issued; a search with N >= 1 queries submits one search    *)
(* call per query, duplicates included, and no other call.                 *)
(***************************************************************************)
C10_ValidationBeforeDispatch ==
    /\ (tool = "search" /\ queries = <<>>) =>
          /\ pc = "done"
          /\ BeginsWithError(result)
          /\ fut = <<>>
          /\ sumCalls = <<>>
    /\ (tool = "summarizer" /\ (url = "" \/ ~EngineAllowed)) =>
          /\ pc = "done"
          /\ BeginsWithError(result)
          /\ fut = <<>>
          /\ sumCalls = <<>>
    /\ (tool = "search" /\ queries # <<>>) =>
          /\ [i \in 1..Len(fut) |-> fut[i].arg] = queries
          /\ sumCalls = <<>>

\* The same query twice: two calls issued, one per element.
C10_Witness ==
    /\ tool = "search"
    /\ Len(queries) = 2
    /\ queries[1] = queries[2]
    /\ Len(fut) = 2
    /\ Issued(1)
    /\ Issued(2)

====
